---- MODULE Spec2Model ----
(***************************************************************************)
(* Deployify: the failure-transition detector, the deployment store, the   *)
(* notification gate and the provider refresh routine, as state machines.  *)
(*                                                                         *)
(* ISO-8601 timestamps (fetchedAt, updatedAt, lastAttemptAt, ...) are      *)
(* positive integers: for well-formed timestamps of one precision and zone *)
(* the string order used by the code (`<`, localeCompare) is the order of  *)
(* the instants.  An absent optional timestamp is undefinedAt; an absent   *)
(* optional string is undefined.  A JavaScript Map is a sequence of its    *)
(* entries in insertion order.                                             *)
(***************************************************************************)
EXTENDS Integers, Sequences, FiniteSets, TLC

VARIABLES
  \* DeploymentStore fields
  providerStatus,   \* Map<ProviderId, ProviderStatus>: a function on the known providers
  projects,         \* Map<string, HostedProject>: entries in insertion order
  deployments,      \* Map<string, DeploymentSummary>: entries in insertion order
  fetchedAt,        \* store-wide fetchedAt
  subscribed,       \* whether activate() attached its onDidUpdate listener
  fired,            \* update events fired by the most recent step
  \* NotificationService
  hasPrimed,
  notifyOnFailure,  \* setting deployify.notifyOnFailure
  alerts,           \* warnings shown while handling the most recent update event
  anyEvent,         \* history: some update event has been handled
  alwaysEnabled,    \* history: notifyOnFailure was on at every handled event
  \* one call of findNewlyFailedDeployments
  detPrevious, detCurrent, detResult, detDone,
  \* the store driven through its public methods
  call,             \* the most recent call and its arguments
  \* refreshProviders
  task,             \* per enabled adapter: where its callback of the run stands
  hadError,
  runAt,            \* the clock reading the run's callbacks took as fetchedAt
  startRows,        \* history: the store's rows when the run started
  completed,        \* history: the adapters in the order their callbacks finished
  logout,           \* per provider, where the command deployify.disconnectProvider stands
  \* a second listener of onDidUpdate that keeps what it was handed
  observing,        \* whether it is attached
  observed,         \* the update event it received last
  \* PollingScheduler
  running,
  failureCount,
  pollIntervalMs,
  timer,            \* this.timer: NoTimer, or the handle of the timeout armed last
  timeouts,         \* the delays of the timeouts that are pending, in arming order
  timerRuns,        \* calls of runTask that await the task
  triggerRuns,      \* calls of triggerNow that await the task
  invocations,      \* history: how many times the task has been invoked
  started,          \* history: start() has been called
  requested,        \* history: the seconds passed last to the constructor or setPollIntervalSeconds
  \* withRetry
  maxAttempts,
  baseDelayMs,
  isRetriable,      \* the name of the predicate passed
  attempt,
  retryAt,          \* where the call of withRetry stands
  sleepMs,          \* the delay of the timeout it armed last
  retryResult,      \* what its promise settled with
  fnCalls           \* history: the outcomes of the invocations of fn

storeVars == <<providerStatus, projects, deployments, fetchedAt, subscribed, fired>>
gateVars == <<hasPrimed, notifyOnFailure, alerts, anyEvent, alwaysEnabled>>
detVars == <<detPrevious, detCurrent, detResult, detDone>>
refreshVars == <<task, hadError, runAt, startRows, completed, logout>>
observerVars == <<observing, observed>>
schedVars ==
  <<running, failureCount, pollIntervalMs, timer, timeouts, timerRuns, triggerRuns, invocations, started,
    requested>>
retryVars ==
  <<maxAttempts, baseDelayMs, isRetriable, attempt, retryAt, sleepMs, retryResult, fnCalls>>
vars == <<storeVars, gateVars, detVars, call, refreshVars, observerVars, schedVars, retryVars>>

----------------------------------------------------------------------------
(* Values *)

undefined == "<undefined>"
undefinedAt == 0

\* JavaScript truthiness of an optional string: undefined and "" are falsy.
Truthy(s) == s # undefined /\ s # ""

SeqsUpTo(S, n) == UNION {[1..k -> S] : k \in 0..n}

Range(s) == {s[i] : i \in 1..Len(s)}

\* The strings the model compares with localeCompare, in collation order
\* (ICU root collation: letters first by base letter, lower case before upper).
CollationOrder ==
  <<"a", "b", "d1", "d2", "netlify", "Netlify", "p1", "p2", "preview",
    "production", "vercel", "Vercel">>

RankOf == [s \in Range(CollationOrder) |-> CHOOSE i \in 1..Len(CollationOrder) : CollationOrder[i] = s]

Rank(s) == RankOf[s]

localeCompare(a, b) ==
  IF Rank(a) < Rank(b) THEN -1 ELSE IF Rank(a) > Rank(b) THEN 1 ELSE 0

\* localeCompare on two timestamps
localeCompareAt(a, b) == IF a < b THEN -1 ELSE IF a > b THEN 1 ELSE 0

----------------------------------------------------------------------------
(* failureTransitions.ts *)

keyForDeployment(summary) ==
  summary.provider \o ":" \o summary.projectId \o ":" \o summary.environment

\* A Map whose set() keeps the entry a key already has
MapSetKeepFirst(map, key, value) ==
  IF \E i \in 1..Len(map) : map[i].key = key
  THEN map
  ELSE Append(map, [key |-> key, value |-> value])

\* Map.prototype.set on a Map of [key, value] entries
MapSet(map, key, value) ==
  IF \E i \in 1..Len(map) : map[i].key = key
  THEN [i \in 1..Len(map) |->
          IF map[i].key = key THEN [key |-> key, value |-> value] ELSE map[i]]
  ELSE Append(map, [key |-> key, value |-> value])

\* Map.prototype.get
MapGet(map, key) ==
  IF \E i \in 1..Len(map) : map[i].key = key
  THEN map[CHOOSE i \in 1..Len(map) : map[i].key = key].value
  ELSE undefined

\* new Map(previous.map(d => [keyForDeployment(d), d.state]))
RECURSIVE PreviousMap(_)
PreviousMap(previous) ==
  IF previous = <<>> THEN <<>>
  ELSE MapSet(PreviousMap(SubSeq(previous, 1, Len(previous) - 1)),
              keyForDeployment(previous[Len(previous)]),
              previous[Len(previous)].state)

IsNewlyFailed(previousMap, deployment) ==
  IF deployment.state # "failed" THEN FALSE
  ELSE MapGet(previousMap, keyForDeployment(deployment)) # "failed"

findNewlyFailedDeployments(previous, current) ==
  LET previousMap == PreviousMap(previous)
  IN SelectSeq(current, LAMBDA deployment : IsNewlyFailed(previousMap, deployment))

----------------------------------------------------------------------------
(* deploymentStore.ts *)

projectKey(provider, projectId) == provider \o ":" \o projectId

\* A key that tells apart two reports of one deployment in different states
deploymentKeyWithState(summary) ==
  summary.provider \o ":" \o summary.projectId \o ":" \o summary.deploymentId
    \o ":" \o summary.state

deploymentKey(summary) ==
  summary.provider \o ":" \o summary.projectId \o ":" \o summary.deploymentId

compareProjects(a, b) ==
  LET providerCompare == localeCompare(a.provider, b.provider)
  IN IF providerCompare # 0 THEN providerCompare ELSE localeCompare(a.name, b.name)

compareDeployments(a, b) ==
  LET providerCompare == localeCompare(a.provider, b.provider)
      projectCompare == localeCompare(a.projectId, b.projectId)
      environmentCompare == localeCompare(a.environment, b.environment)
  IN IF providerCompare # 0 THEN providerCompare
     ELSE IF projectCompare # 0 THEN projectCompare
     ELSE IF environmentCompare # 0 THEN environmentCompare
     ELSE localeCompareAt(b.updatedAt, a.updatedAt)

compareProviders(a, b) == localeCompare(a.displayName, b.displayName)

\* The comparator getSnapshot hands to sort for each of its three lists
compare(by, a, b) ==
  IF by = "projects" THEN compareProjects(a, b)
  ELSE IF by = "deployments" THEN compareDeployments(a, b)
  ELSE compareProviders(a, b)

\* Array.prototype.sort: stable, by a comparator with results < 0, = 0, > 0.
RECURSIVE InsertSorted(_, _, _)
InsertSorted(by, sorted, x) ==
  IF sorted = <<>> THEN <<x>>
  ELSE IF compare(by, sorted[Len(sorted)], x) <= 0 THEN Append(sorted, x)
  ELSE Append(InsertSorted(by, SubSeq(sorted, 1, Len(sorted) - 1), x),
              sorted[Len(sorted)])

RECURSIVE SortBy(_, _)
SortBy(by, s) ==
  IF s = <<>> THEN <<>>
  ELSE InsertSorted(by, SortBy(by, SubSeq(s, 1, Len(s) - 1)), s[Len(s)])

\* [...this.providerStatus.values()].sort(...).  Display names are distinct per
\* provider here, so the sorted list does not depend on the insertion order of
\* the statuses.
RECURSIVE SetToSortedSeq(_)
SetToSortedSeq(S) ==
  IF S = {} THEN <<>>
  ELSE LET x == CHOOSE y \in S : \A z \in S : compare("providers", y, z) <= 0
       IN <<x>> \o SetToSortedSeq(S \ {x})

Snapshot(projs, deps, status, at) ==
  [ projects |-> SortBy("projects", projs),
    deployments |-> SortBy("deployments", deps),
    providers |-> SetToSortedSeq({status[p] : p \in DOMAIN status}),
    fetchedAt |-> at ]

getSnapshot == Snapshot(projects, deployments, providerStatus, fetchedAt)

InitialStatus(provider, displayName) ==
  [ provider |-> provider, displayName |-> displayName, connected |-> FALSE,
    lastSuccessAt |-> undefinedAt, lastAttemptAt |-> undefinedAt,
    staleSince |-> undefinedAt, error |-> undefined ]

\* A purge that deletes the rows of every provider
DeleteEveryProvider(rows, provider) == SelectSeq(rows, LAMBDA row : FALSE)

\* for (...entries()) if (value.provider === provider) delete(key)
DeleteProvider(rows, provider) == SelectSeq(rows, LAMBDA row : row.provider # provider)

\* this.projects.set(projectKey(project.provider, project.projectId), project)
SetProject(rows, project) ==
  LET key == projectKey(project.provider, project.projectId)
  IN IF \E i \in 1..Len(rows) : projectKey(rows[i].provider, rows[i].projectId) = key
     THEN [i \in 1..Len(rows) |->
             IF projectKey(rows[i].provider, rows[i].projectId) = key
             THEN project ELSE rows[i]]
     ELSE Append(rows, project)

RECURSIVE SetProjects(_, _)
SetProjects(rows, incoming) ==
  IF incoming = <<>> THEN rows
  ELSE SetProjects(SetProject(rows, Head(incoming)), Tail(incoming))

replaceProviderProjects(rows, provider, incoming) ==
  SetProjects(DeleteProvider(rows, provider), incoming)

\* if (!existing || existing.updatedAt < summary.updatedAt) set(key, summary)
MergeDeployment(rows, summary) ==
  LET key == deploymentKey(summary)
      hit == {i \in 1..Len(rows) : deploymentKey(rows[i]) = key}
  IN IF hit = {} THEN Append(rows, summary)
     ELSE LET i == CHOOSE j \in hit : TRUE
          IN IF rows[i].updatedAt < summary.updatedAt
             THEN [rows EXCEPT ![i] = summary]
             ELSE rows

RECURSIVE MergeDeployments(_, _)
MergeDeployments(rows, incoming) ==
  IF incoming = <<>> THEN rows
  ELSE MergeDeployments(MergeDeployment(rows, Head(incoming)), Tail(incoming))

\* A merge into the rows already stored, without the purge of the provider's rows
mergeProviderDeployments(rows, provider, incoming) ==
  MergeDeployments(rows, incoming)

replaceProviderDeployments(rows, provider, incoming) ==
  MergeDeployments(DeleteProvider(rows, provider), incoming)

\* A disconnect that leaves the provider's rows in place
keepProviderData(rows, provider) == rows

clearProviderData(rows, provider) == DeleteProvider(rows, provider)

\* status?.field ?? fallback, for a provider that may be unknown
StatusField(provider, field, fallback) ==
  IF provider \in DOMAIN providerStatus THEN providerStatus[provider][field] ELSE fallback

\* A status whose staleSince restarts at every failed attempt
NextStatusRestale(result) ==
  [ provider |-> result.provider,
    displayName |-> StatusField(result.provider, "displayName", result.provider),
    connected |-> result.connected,
    lastAttemptAt |-> result.fetchedAt,
    lastSuccessAt |-> IF Truthy(result.error)
                      THEN StatusField(result.provider, "lastSuccessAt", undefinedAt)
                      ELSE result.fetchedAt,
    staleSince |-> IF Truthy(result.error) THEN result.fetchedAt ELSE undefinedAt,
    error |-> result.error ]

NextStatus(result) ==
  [ provider |-> result.provider,
    displayName |-> StatusField(result.provider, "displayName", result.provider),
    connected |-> result.connected,
    lastAttemptAt |-> result.fetchedAt,
    lastSuccessAt |-> IF Truthy(result.error)
                      THEN StatusField(result.provider, "lastSuccessAt", undefinedAt)
                      ELSE result.fetchedAt,
    staleSince |-> IF Truthy(result.error)
                   THEN (IF StatusField(result.provider, "staleSince", undefinedAt) # undefinedAt
                         THEN providerStatus[result.provider].staleSince
                         ELSE result.fetchedAt)
                   ELSE undefinedAt,
    error |-> result.error ]

----------------------------------------------------------------------------
(* notificationService.ts *)

\* The service without its priming flag: alerts from the first event on
handleStoreUpdateUnprimed(update) ==
  /\ anyEvent' = TRUE
  /\ alwaysEnabled' = (alwaysEnabled /\ notifyOnFailure)
  /\ UNCHANGED <<notifyOnFailure, hasPrimed>>
  /\ IF ~notifyOnFailure
     THEN alerts' = <<>>
     ELSE alerts' = findNewlyFailedDeployments(update.previous.deployments,
                                               update.current.deployments)

\* A service that primes at its first event, whatever the setting
handleStoreUpdatePrimeFirst(update) ==
  /\ anyEvent' = TRUE
  /\ alwaysEnabled' = (alwaysEnabled /\ notifyOnFailure)
  /\ UNCHANGED notifyOnFailure
  /\ IF ~hasPrimed
     THEN /\ hasPrimed' = TRUE
          /\ alerts' = <<>>
     ELSE IF ~notifyOnFailure
     THEN /\ alerts' = <<>>
          /\ UNCHANGED hasPrimed
     ELSE /\ alerts' = findNewlyFailedDeployments(update.previous.deployments,
                                                  update.current.deployments)
          /\ UNCHANGED hasPrimed

handleStoreUpdate(update) ==
  /\ anyEvent' = TRUE
  /\ alwaysEnabled' = (alwaysEnabled /\ notifyOnFailure)
  /\ UNCHANGED notifyOnFailure
  /\ IF ~notifyOnFailure
     THEN /\ alerts' = <<>>
          /\ UNCHANGED hasPrimed
     ELSE IF ~hasPrimed
     THEN /\ hasPrimed' = TRUE
          /\ alerts' = <<>>
     ELSE /\ alerts' = findNewlyFailedDeployments(update.previous.deployments,
                                                  update.current.deployments)
          /\ UNCHANGED hasPrimed

----------------------------------------------------------------------------
(* deploymentStore.ts: operations *)

\* An emitter that hands over, as current, the snapshot taken before the mutation
emitUpdateStale(previous) ==
  /\ fired' = 1
  /\ UNCHANGED observing
  /\ IF subscribed \/ observing
     THEN \E update \in {[ previous |-> previous, current |-> previous ]} :
            /\ IF subscribed THEN handleStoreUpdate(update) ELSE UNCHANGED gateVars
            /\ IF observing THEN observed' = update ELSE UNCHANGED observed
     ELSE UNCHANGED <<gateVars, observed>>

\* this.onDidUpdateEmitter.fire({previous, current: this.getSnapshot()}):
\* synchronous delivery to the listener attached in activate().  current is
\* getSnapshot() of the store as the mutation left it.
emitUpdate(previous) ==
  /\ fired' = 1
  /\ UNCHANGED observing
  /\ IF subscribed \/ observing
     THEN \E update \in {[ previous |-> previous,
                             current |-> Snapshot(projects', deployments',
                                                  providerStatus', fetchedAt') ]} :
            /\ IF subscribed THEN handleStoreUpdate(update) ELSE UNCHANGED gateVars
            /\ IF observing THEN observed' = update ELSE UNCHANGED observed
     ELSE UNCHANGED <<gateVars, observed>>

initializeProvider(provider, displayName) ==
  /\ fired' = 0
  /\ IF provider \in DOMAIN providerStatus
     THEN UNCHANGED providerStatus
     ELSE providerStatus' =
            [q \in DOMAIN providerStatus \cup {provider} |->
               IF q = provider THEN InitialStatus(provider, displayName)
               ELSE providerStatus[q]]
  /\ UNCHANGED <<projects, deployments, fetchedAt, subscribed>>
  /\ UNCHANGED <<gateVars, observerVars>>

applyProviderResult(result) ==
  LET previous == getSnapshot
  IN /\ providerStatus' =
          [q \in DOMAIN providerStatus \cup {result.provider} |->
             IF q = result.provider THEN NextStatus(result) ELSE providerStatus[q]]
     /\ IF ~Truthy(result.error)
        THEN /\ projects' = replaceProviderProjects(projects, result.provider, result.projects)
             /\ deployments' =
                  replaceProviderDeployments(deployments, result.provider, result.deployments)
             /\ fetchedAt' = result.fetchedAt
        ELSE UNCHANGED <<projects, deployments, fetchedAt>>
     /\ UNCHANGED subscribed
     /\ emitUpdate(previous)

\* now: the reading of new Date() taken by the call
markProviderDisconnected(provider, message, now) ==
  LET previous == getSnapshot
  IN IF provider \notin DOMAIN providerStatus
     THEN /\ fired' = 0
          /\ UNCHANGED <<providerStatus, projects, deployments, fetchedAt, subscribed>>
          /\ UNCHANGED <<gateVars, observerVars>>
     ELSE /\ providerStatus' =
               [providerStatus EXCEPT ![provider] =
                  [@ EXCEPT !.connected = FALSE, !.error = message,
                            !.lastAttemptAt = now, !.staleSince = undefinedAt]]
          /\ projects' = clearProviderData(projects, provider)
          /\ deployments' = clearProviderData(deployments, provider)
          /\ UNCHANGED <<fetchedAt, subscribed>>
          /\ emitUpdate(previous)

----------------------------------------------------------------------------
(* pollingScheduler.ts *)

BackoffCapMs == 300000
JitterBoundMs == 400
MinimumIntervalSeconds == 20
DefaultPollIntervalSeconds == 45

\* this.timer is undefined, or holds the handle of the timeout armed last:
\* every setTimeout of the class is assigned to it.  The handle stays in the
\* field after that timeout has expired.
NoTimer == [handle |-> "undefined"]
PendingTimer == [handle |-> "pending"]
ExpiredTimer == [handle |-> "expired"]

Max(a, b) == IF a >= b THEN a ELSE b
Min(a, b) == IF a <= b THEN a ELSE b

\* An interval without the floor
IntervalMsUnclamped(seconds) == seconds * 1000

\* Math.max(this.minimumIntervalSeconds, seconds) * 1000
IntervalMs(seconds) == Max(MinimumIntervalSeconds, seconds) * 1000

\* Math.min(5 * 60_000, this.pollIntervalMs * Math.pow(2, this.failureCount))
BackoffMs(interval, failures) == Min(BackoffCapMs, interval * 2^failures)

\* How many times the task is invoked, or fails in a row, in the behaviours explored
MaxRuns == 3

\* The history counter of invocations counts up to MaxRuns
Counted(n) == IF n < MaxRuns THEN n + 1 ELSE n

SchedIdle ==
  /\ running = FALSE
  /\ failureCount = 0
  /\ pollIntervalMs = IntervalMs(DefaultPollIntervalSeconds)
  /\ timer = NoTimer
  /\ timeouts = <<>>
  /\ timerRuns = 0
  /\ triggerRuns = 0
  /\ invocations = 0
  /\ started = FALSE
  /\ requested = DefaultPollIntervalSeconds

\* clearTimeout(this.timer): the timeout armed last is removed if it is pending
clearTimeout ==
  IF timer = PendingTimer THEN SubSeq(timeouts, 1, Len(timeouts) - 1) ELSE timeouts

\* A schedule() that does not clear the pending timeout
scheduleNoClear(isRunning, delayMs) ==
  IF ~isRunning THEN UNCHANGED <<timer, timeouts>>
  ELSE /\ timeouts' = Append(timeouts, delayMs)
       /\ timer' = PendingTimer

\* schedule(delayMs), with running as the method finds it
schedule(isRunning, delayMs) ==
  IF ~isRunning THEN UNCHANGED <<timer, timeouts>>
  ELSE /\ timeouts' = Append(clearTimeout, delayMs)
       /\ timer' = PendingTimer

\* A start() without its check of running
startUnguarded ==
  /\ running' = TRUE
  /\ schedule(TRUE, 0)
  /\ started' = TRUE
  /\ UNCHANGED <<failureCount, pollIntervalMs, timerRuns, triggerRuns, invocations, requested>>

start ==
  /\ started' = TRUE
  /\ IF running
     THEN UNCHANGED <<running, timer, timeouts>>
     ELSE /\ running' = TRUE
          /\ schedule(TRUE, 0)
  /\ UNCHANGED <<failureCount, pollIntervalMs, timerRuns, triggerRuns, invocations, requested>>

\* A stop() that leaves its timeout pending
stopKeepTimer ==
  /\ running' = FALSE
  /\ UNCHANGED <<timer, timeouts>>
  /\ UNCHANGED <<failureCount, pollIntervalMs, timerRuns, triggerRuns, invocations, started, requested>>

\* A stop() that also resets the backoff level
stopResetCount ==
  /\ running' = FALSE
  /\ failureCount' = 0
  /\ IF timer # NoTimer
     THEN /\ timeouts' = clearTimeout
          /\ timer' = NoTimer
     ELSE UNCHANGED <<timer, timeouts>>
  /\ UNCHANGED <<pollIntervalMs, timerRuns, triggerRuns, invocations, started, requested>>

stop ==
  /\ running' = FALSE
  /\ IF timer # NoTimer
     THEN /\ timeouts' = clearTimeout
          /\ timer' = NoTimer
     ELSE UNCHANGED <<timer, timeouts>>
  /\ UNCHANGED <<failureCount, pollIntervalMs, timerRuns, triggerRuns, invocations, started, requested>>

\* A setPollIntervalSeconds() that re-arms the timer with the new interval
setPollIntervalSecondsRearm(seconds) ==
  /\ pollIntervalMs' = IntervalMs(seconds)
  /\ requested' = seconds
  /\ schedule(running, IntervalMs(seconds))
  /\ UNCHANGED <<running, failureCount, timerRuns, triggerRuns, invocations, started>>

setPollIntervalSeconds(seconds) ==
  /\ pollIntervalMs' = IntervalMs(seconds)
  /\ requested' = seconds
  /\ UNCHANGED <<running, failureCount, timer, timeouts, timerRuns, triggerRuns, invocations, started>>

\* The i-th pending timeout expires and calls runTask, which invokes the task
\* and awaits it.
runTask(i) ==
  /\ i \in 1..Len(timeouts)
  /\ timeouts' = SubSeq(timeouts, 1, i - 1) \o SubSeq(timeouts, i + 1, Len(timeouts))
  /\ timer' = IF timer = PendingTimer /\ i = Len(timeouts) THEN ExpiredTimer ELSE timer
  /\ IF ~running
     THEN UNCHANGED <<timerRuns, invocations>>
     ELSE /\ timerRuns' = timerRuns + 1
          /\ invocations' = Counted(invocations)
  /\ UNCHANGED <<running, failureCount, pollIntervalMs, triggerRuns, started, requested>>

\* A successful tick that keeps the failure count and its backoff
runTaskResolvedKeepCount ==
  /\ timerRuns > 0
  /\ timerRuns' = timerRuns - 1
  /\ UNCHANGED failureCount
  /\ schedule(running, IF failureCount = 0 THEN pollIntervalMs
                       ELSE BackoffMs(pollIntervalMs, failureCount))
  /\ UNCHANGED <<running, pollIntervalMs, triggerRuns, invocations, started, requested>>

\* runTask resumes after the task resolved
runTaskResolved ==
  /\ timerRuns > 0
  /\ timerRuns' = timerRuns - 1
  /\ failureCount' = 0
  /\ schedule(running, pollIntervalMs)
  /\ UNCHANGED <<running, pollIntervalMs, triggerRuns, invocations, started, requested>>

\* A failed tick that counts the failure and arms no retry
runTaskRejectedNoRetry(jitterMs) ==
  /\ timerRuns > 0
  /\ timerRuns' = timerRuns - 1
  /\ failureCount' = failureCount + 1
  /\ UNCHANGED <<timer, timeouts>>
  /\ UNCHANGED <<running, pollIntervalMs, triggerRuns, invocations, started, requested>>

\* runTask resumes after the task rejected; jitterMs is Math.floor(Math.random() * 400)
runTaskRejected(jitterMs) ==
  /\ timerRuns > 0
  /\ timerRuns' = timerRuns - 1
  /\ failureCount' = failureCount + 1
  /\ schedule(running, BackoffMs(pollIntervalMs, failureCount + 1) + jitterMs)
  /\ UNCHANGED <<running, pollIntervalMs, triggerRuns, invocations, started, requested>>

\* What refreshProviders, the task of the extension's scheduler, throws
RefreshError == "One or more providers failed while refreshing deployments."

\* The promises of runTask and triggerNow once they settle
Fulfilled == [state |-> "fulfilled"]
Rejected(error) == [state |-> "rejected", reason |-> error]

\* runTask: catch { ... } has no throw, so the promise resolves
runTaskCaught(error) == Fulfilled

\* A triggerNow() whose catch block ends without throw
triggerNowSwallowed(error) == Fulfilled

\* triggerNow: catch (error) { ... throw error; }
triggerNowCaught(error) == Rejected(error)

\* A triggerNow() that invokes the task only while the scheduler is running
triggerNowIfRunning ==
  /\ triggerRuns' = triggerRuns + 1
  /\ invocations' = IF running THEN invocations + 1 ELSE invocations
  /\ UNCHANGED <<running, failureCount, pollIntervalMs, timer, timeouts, timerRuns, started, requested>>

\* A triggerNow() that joins a run in flight instead of invoking the task
triggerNowGuarded ==
  /\ triggerRuns' = triggerRuns + 1
  /\ invocations' = IF timerRuns + triggerRuns > 0 THEN invocations ELSE Counted(invocations)
  /\ UNCHANGED <<running, failureCount, pollIntervalMs, timer, timeouts, timerRuns, started, requested>>

\* triggerNow up to its await: the task is invoked
triggerNow ==
  /\ triggerRuns' = triggerRuns + 1
  /\ invocations' = Counted(invocations)
  /\ UNCHANGED <<running, failureCount, pollIntervalMs, timer, timeouts, timerRuns, started, requested>>

\* triggerNow resumes after the task resolved
triggerNowResolved ==
  /\ triggerRuns > 0
  /\ triggerRuns' = triggerRuns - 1
  /\ failureCount' = 0
  /\ schedule(running, pollIntervalMs)
  /\ UNCHANGED <<running, pollIntervalMs, timerRuns, invocations, started, requested>>

\* A failed triggerNow() that backs off by the count before its increment
triggerNowRejectedStaleCount(jitterMs) ==
  /\ triggerRuns > 0
  /\ triggerRuns' = triggerRuns - 1
  /\ failureCount' = failureCount + 1
  /\ schedule(running, BackoffMs(pollIntervalMs, failureCount) + jitterMs)
  /\ UNCHANGED <<running, pollIntervalMs, timerRuns, invocations, started, requested>>

\* triggerNow resumes after the task rejected, and rethrows
triggerNowRejected(jitterMs) ==
  /\ triggerRuns > 0
  /\ triggerRuns' = triggerRuns - 1
  /\ failureCount' = failureCount + 1
  /\ schedule(running, BackoffMs(pollIntervalMs, failureCount + 1) + jitterMs)
  /\ UNCHANGED <<running, pollIntervalMs, timerRuns, invocations, started, requested>>

----------------------------------------------------------------------------
(* http.ts *)

RetryJitterBoundMs == 150

\* What fn rejects with: an HttpError of requestJson, or the Error of a
\* request that failed or timed out (rawRequest's "error" handler)
HttpError(statusCode) == [isHttpError |-> TRUE, statusCode |-> statusCode]
TransportError == [isHttpError |-> FALSE, message |-> "Request timed out"]

isRateLimitedOrServerError(error) ==
  IF ~error.isHttpError THEN FALSE
  ELSE error.statusCode = 429 \/ error.statusCode >= 500

\* isRetriable(error) for the predicate passed to withRetry
Retriable(predicate, error) ==
  IF predicate = "isRateLimitedOrServerError" THEN isRateLimitedOrServerError(error)
  ELSE predicate = "always"

NotCalled == [at |-> "not called"]
AwaitingFn == [at |-> "await fn()"]
Sleeping == [at |-> "await setTimeout"]
RetrySettled == [at |-> "settled"]
Pending == [state |-> "pending"]
Resolved(value) == [state |-> "fulfilled", value |-> value]

RetryIdle ==
  /\ maxAttempts = 0
  /\ baseDelayMs = 0
  /\ isRetriable = "none"
  /\ attempt = 0
  /\ retryAt = NotCalled
  /\ sleepMs = 0
  /\ retryResult = Pending
  /\ fnCalls = <<>>

\* withRetry up to its first await: attempt += 1; fn()
withRetry(fn_maxAttempts, fn_baseDelayMs, predicate) ==
  /\ maxAttempts = fn_maxAttempts
  /\ baseDelayMs = fn_baseDelayMs
  /\ isRetriable = predicate
  /\ attempt = 1
  /\ retryAt = AwaitingFn
  /\ sleepMs = 0
  /\ retryResult = Pending
  /\ fnCalls = <<>>

\* return await fn()
fnResolved(value) ==
  /\ retryAt = AwaitingFn
  /\ fnCalls' = Append(fnCalls, Resolved(value))
  /\ retryResult' = Resolved(value)
  /\ retryAt' = RetrySettled
  /\ UNCHANGED <<maxAttempts, baseDelayMs, isRetriable, attempt, sleepMs>>

\* A catch block that gives up after maxAttempts failures instead of attempts
fnRejectedOneMore(error, jitter) ==
  /\ retryAt = AwaitingFn
  /\ fnCalls' = Append(fnCalls, Rejected(error))
  /\ IF attempt > maxAttempts \/ ~Retriable(isRetriable, error)
     THEN /\ retryResult' = Rejected(error)
          /\ retryAt' = RetrySettled
          /\ UNCHANGED sleepMs
     ELSE /\ sleepMs' = baseDelayMs * 2^(attempt - 1) + jitter
          /\ retryAt' = Sleeping
          /\ UNCHANGED retryResult
  /\ UNCHANGED <<maxAttempts, baseDelayMs, isRetriable, attempt>>

\* catch (error): throw it, or arm the timeout; jitter is Math.floor(Math.random() * 150)
fnRejected(error, jitter) ==
  /\ retryAt = AwaitingFn
  /\ fnCalls' = Append(fnCalls, Rejected(error))
  /\ IF attempt >= maxAttempts \/ ~Retriable(isRetriable, error)
     THEN /\ retryResult' = Rejected(error)
          /\ retryAt' = RetrySettled
          /\ UNCHANGED sleepMs
     ELSE /\ sleepMs' = baseDelayMs * 2^(attempt - 1) + jitter
          /\ retryAt' = Sleeping
          /\ UNCHANGED retryResult
  /\ UNCHANGED <<maxAttempts, baseDelayMs, isRetriable, attempt>>

\* The timeout resolves; the loop starts over: attempt += 1; fn()
retryTimeoutElapsed ==
  /\ retryAt = Sleeping
  /\ attempt' = attempt + 1
  /\ retryAt' = AwaitingFn
  /\ UNCHANGED <<maxAttempts, baseDelayMs, isRetriable, sleepMs, retryResult, fnCalls>>

----------------------------------------------------------------------------
(* One call of findNewlyFailedDeployments on bounded lists *)

MaxLen == 2

DetDeployments ==
  [ provider : {"vercel"}, projectId : {"p1", "p2"},
    environment : {"production", "preview"}, deploymentId : {"d1"},
    state : {"failed", "ready"}, updatedAt : {1} ]

StoreIdle ==
  /\ providerStatus = <<>>
  /\ projects = <<>>
  /\ deployments = <<>>
  /\ fetchedAt = undefinedAt
  /\ subscribed = FALSE
  /\ fired = 0

GateIdle ==
  /\ hasPrimed = FALSE
  /\ notifyOnFailure = TRUE
  /\ alerts = <<>>
  /\ anyEvent = FALSE
  /\ alwaysEnabled = TRUE

DetIdle ==
  /\ detPrevious = <<>>
  /\ detCurrent = <<>>
  /\ detResult = <<>>
  /\ detDone = FALSE

NoEvent == [previous |-> "none"]

ObserverIdle ==
  /\ observing = FALSE
  /\ observed = NoEvent

NoCall == [op |-> "none"]

CallIdle == call = NoCall

RefreshIdle ==
  /\ task = <<>>
  /\ hadError = FALSE
  /\ runAt = undefinedAt
  /\ startRows = <<>>
  /\ completed = <<>>
  /\ logout = <<>>

InitDetector ==
  /\ detPrevious \in SeqsUpTo(DetDeployments, MaxLen)
  /\ detCurrent \in SeqsUpTo(DetDeployments, MaxLen)
  /\ detResult = <<>>
  /\ detDone = FALSE
  /\ StoreIdle
  /\ GateIdle
  /\ CallIdle
  /\ RefreshIdle
  /\ ObserverIdle
  /\ SchedIdle
  /\ RetryIdle

Detect ==
  /\ ~detDone
  /\ detResult' = findNewlyFailedDeployments(detPrevious, detCurrent)
  /\ detDone' = TRUE
  /\ UNCHANGED <<detPrevious, detCurrent, storeVars, gateVars, call, refreshVars, observerVars, schedVars, retryVars>>

NextDetector == Detect

SpecDetector == InitDetector /\ [][NextDetector]_vars

----------------------------------------------------------------------------
(* extension.ts: the store, seeded by activate() with the registered       *)
(* adapters, with the notification service attached to onDidUpdate.  Each  *)
(* action is one store mutation made by refreshProviders or by the         *)
(* disconnect command, with the listener's handling of its update event.   *)

Providers == {"netlify", "vercel"}

DisplayNameOf(provider) == IF provider = "vercel" THEN "Vercel" ELSE "Netlify"

\* What an adapter may list: up to two deployments of vercel's production
\* slot, one of netlify's.
DeploymentIdsOf(provider) == IF provider = "vercel" THEN {"d1", "d2"} ELSE {"d1"}

UpdateTimesOf(provider) == IF provider = "vercel" THEN {1, 2} ELSE {1}

AdapterDeployments(provider) ==
  [ provider : {provider}, projectId : {"p1"}, environment : {"production"},
    deploymentId : DeploymentIdsOf(provider), state : {"failed", "ready"},
    updatedAt : UpdateTimesOf(provider) ]

AdapterProject(provider) == [provider |-> provider, projectId |-> "p1", name |-> "a"]

\* Deployment ids are unique within a provider: a listing names each at most once.
DistinctIds(list) ==
  \A i, j \in 1..Len(list) : list[i].deploymentId = list[j].deploymentId => i = j

\* results.flat().sort((a, b) => b.updatedAt.localeCompare(a.updatedAt))
NewestFirst(list) ==
  \A i, j \in 1..Len(list) : i < j => list[i].updatedAt >= list[j].updatedAt

AdapterListings ==
  [ provider \in Providers |->
      {d \in SeqsUpTo(AdapterDeployments(provider), Cardinality(DeploymentIdsOf(provider))) :
         DistinctIds(d) /\ NewestFirst(d)} ]

\* await adapter.getProjects(...); projects.length > 0 ? await getLatestDeployments(...) : []
AdapterResults(provider, at) ==
  { [ provider |-> provider, connected |-> TRUE, projects |-> <<>>,
      deployments |-> <<>>, error |-> undefined, fetchedAt |-> at ] }
  \cup
  { [ provider |-> provider, connected |-> TRUE, projects |-> <<AdapterProject(provider)>>,
      deployments |-> d, error |-> undefined, fetchedAt |-> at ]
    : d \in AdapterListings[provider] }

\* A result that carries the empty lists without the error
EmptyResult(provider, message, at) ==
  [ provider |-> provider, connected |-> TRUE, projects |-> <<>>, deployments |-> <<>>,
    error |-> undefined, fetchedAt |-> at ]

ErrorResult(provider, message, at) ==
  [ provider |-> provider, connected |-> TRUE, projects |-> <<>>, deployments |-> <<>>,
    error |-> message, fetchedAt |-> at ]

Init ==
  /\ providerStatus = [p \in Providers |-> InitialStatus(p, DisplayNameOf(p))]
  /\ projects = <<>>
  /\ deployments = <<>>
  /\ fetchedAt = undefinedAt
  /\ subscribed = TRUE
  /\ fired = 0
  /\ hasPrimed = FALSE
  /\ notifyOnFailure \in BOOLEAN
  /\ alerts = <<>>
  /\ anyEvent = FALSE
  /\ alwaysEnabled = TRUE
  /\ DetIdle
  /\ CallIdle
  /\ RefreshIdle
  /\ ObserverIdle
  /\ SchedIdle
  /\ RetryIdle

FetchSucceeded ==
  \E p \in Providers : \E result \in AdapterResults(p, 1) :
    /\ applyProviderResult(result)
    /\ UNCHANGED <<detVars, schedVars, retryVars, call, refreshVars>>

FetchFailed ==
  \E p \in Providers :
    /\ applyProviderResult(ErrorResult(p, "boom", 1))
    /\ UNCHANGED <<detVars, schedVars, retryVars, call, refreshVars>>

NotConnected ==
  \E p \in Providers :
    /\ markProviderDisconnected(p, "Not connected", 1)
    /\ UNCHANGED <<detVars, schedVars, retryVars, call, refreshVars>>

\* The user edits deployify.notifyOnFailure; the service reads it at each event.
ChangeNotifySetting ==
  /\ notifyOnFailure' = ~notifyOnFailure
  /\ fired' = 0
  /\ UNCHANGED <<hasPrimed, alerts, anyEvent, alwaysEnabled, observerVars>>
  /\ UNCHANGED <<providerStatus, projects, deployments, fetchedAt, subscribed>>
  /\ UNCHANGED <<detVars, schedVars, retryVars, call, refreshVars>>

Next == FetchSucceeded \/ FetchFailed \/ NotConnected \/ ChangeNotifySetting

Spec == Init /\ [][Next]_vars

----------------------------------------------------------------------------
(* deploymentStore.ts: a store constructed with some of the providers and  *)
(* driven through its public methods, with no listener attached.           *)

MaxTime == 2
MaxListed == 2

UpdateTimes == {1, 2}

StoreDeployment(id, at) ==
  [ provider |-> "vercel", projectId |-> "p1", environment |-> "production",
    deploymentId |-> id, state |-> IF at = 1 THEN "ready" ELSE "failed", updatedAt |-> at ]

\* d1 as updated at each time, and d2
StoreDeployments ==
  {StoreDeployment("d1", at) : at \in UpdateTimes} \cup {StoreDeployment("d2", 1)}

StoreProjects == {[provider |-> "vercel", projectId |-> "p1", name |-> n] : n \in {"a", "b"}}

\* Results for vercel: any listing without an error, the falsy error "" or an
\* error with empty lists or with one listing, and a project listed twice.
VercelResults ==
  [ provider : {"vercel"}, connected : {TRUE},
    projects : SeqsUpTo(StoreProjects, 1),
    deployments : SeqsUpTo(StoreDeployments, MaxListed),
    error : {undefined}, fetchedAt : 1..MaxTime ]
  \cup
  [ provider : {"vercel"}, connected : {TRUE},
    projects : {<<>>},
    deployments : {<<>>, <<StoreDeployment("d2", 1)>>},
    error : {"", "boom"}, fetchedAt : 1..MaxTime ]
  \cup
  [ provider : {"vercel"}, connected : {TRUE},
    projects : [1..2 -> StoreProjects],
    deployments : {<<>>},
    error : {undefined}, fetchedAt : 1..MaxTime ]

\* Results for netlify: one listing
NetlifyResults ==
  { [ provider |-> "netlify", connected |-> TRUE,
      projects |-> <<AdapterProject("netlify")>>,
      deployments |-> <<[ provider |-> "netlify", projectId |-> "p1",
                          environment |-> "production", deploymentId |-> "d1",
                          state |-> "ready", updatedAt |-> 1 ]>>,
      error |-> undefined, fetchedAt |-> 1 ] }

InitStore ==
  /\ \E seedProviders \in {{"netlify"}, Providers} :
       providerStatus = [p \in seedProviders |-> InitialStatus(p, DisplayNameOf(p))]
  /\ projects = <<>>
  /\ deployments = <<>>
  /\ fetchedAt = undefinedAt
  /\ subscribed = FALSE
  /\ fired = 0
  /\ GateIdle
  /\ DetIdle
  /\ CallIdle
  /\ RefreshIdle
  /\ ObserverIdle
  /\ SchedIdle
  /\ RetryIdle

InitializeProvider ==
  \E p \in {"vercel"} :
    /\ initializeProvider(p, DisplayNameOf(p))
    /\ call' = [op |-> "initializeProvider", provider |-> p]
    /\ UNCHANGED <<detVars, schedVars, retryVars, refreshVars>>

\* Results come from registered adapters, whose providers the store knows.
ApplyProviderResult ==
  \E result \in VercelResults \cup NetlifyResults :
    /\ result.provider \in DOMAIN providerStatus
    /\ applyProviderResult(result)
    /\ call' = [op |-> "applyProviderResult", result |-> result]
    /\ UNCHANGED <<detVars, schedVars, retryVars, refreshVars>>

MarkProviderDisconnected ==
  \E p \in {"vercel"}, now \in 1..MaxTime :
    /\ markProviderDisconnected(p, "Disconnected", now)
    /\ call' = [op |-> "markProviderDisconnected", provider |-> p,
                message |-> "Disconnected", now |-> now]
    /\ UNCHANGED <<detVars, schedVars, retryVars, refreshVars>>

NextStore == InitializeProvider \/ ApplyProviderResult \/ MarkProviderDisconnected

SpecStore == InitStore /\ [][NextStore]_vars

----------------------------------------------------------------------------
(* deploymentStore.ts: results whose listing names one deployment several  *)
(* times, with the same or with different updatedAt.                        *)

MaxDuplicates == 3

ListedDeployment(id, at, state) ==
  [ provider |-> "vercel", projectId |-> "p1", environment |-> "production",
    deploymentId |-> id, state |-> state, updatedAt |-> at ]

ListedDeployments ==
  {ListedDeployment("d1", at, state) : at \in UpdateTimes, state \in {"ready", "failed"}}
    \cup {ListedDeployment("d2", 1, "ready")}

ListedResults ==
  [ provider : {"vercel"}, connected : {TRUE},
    projects : {<<>>},
    deployments : SeqsUpTo(ListedDeployments, MaxDuplicates),
    error : {undefined}, fetchedAt : {1} ]

ApplyListedResult ==
  \E result \in ListedResults :
    /\ result.provider \in DOMAIN providerStatus
    /\ applyProviderResult(result)
    /\ call' = [op |-> "applyProviderResult", result |-> result]
    /\ UNCHANGED <<detVars, schedVars, retryVars, refreshVars>>

NextMerge == ApplyListedResult

SpecMerge == InitStore /\ [][NextMerge]_vars

----------------------------------------------------------------------------
(* extension.ts: refreshProviders.  One callback per enabled adapter runs  *)
(* under Promise.all; the callbacks interleave at their awaits.  Runs      *)
(* follow one another, each reading the clock once more.                   *)

\* The command deployify.disconnectProvider for one provider: not invoked,
\* after await adapter.logout(), after store.markProviderDisconnected
LoggedIn == [at |-> "not invoked"]
SessionCleared == [at |-> "logout"]
MarkedDisconnected == [at |-> "markProviderDisconnected"]

Idle == [at |-> "idle"]
AwaitingAuth == [at |-> "isAuthenticated"]
Fetching == [at |-> "fetch"]

Done(p) == task[p].at = "done"

RefreshDeployment(provider, state) ==
  [ provider |-> provider, projectId |-> "p1", environment |-> "production",
    deploymentId |-> "d1", state |-> state, updatedAt |-> 1 ]

\* projects.length > 0 ? await adapter.getLatestDeployments(...) : []
RefreshResults(provider, at) ==
  { [ provider |-> provider, connected |-> TRUE, projects |-> <<>>,
      deployments |-> <<>>, fetchedAt |-> at, error |-> undefined ] }
  \cup
  { [ provider |-> provider, connected |-> TRUE, projects |-> <<AdapterProject(provider)>>,
      deployments |-> d, fetchedAt |-> at, error |-> undefined ]
    : d \in {<<>>, <<RefreshDeployment(provider, "ready")>>,
             <<RefreshDeployment(provider, "failed")>>} }

\* What a fetch may throw: an Error with a message, or a value that is no Error
Thrown == {[isError |-> TRUE, message |-> "boom"], [isError |-> FALSE]}

\* error instanceof Error ? error.message : "Unknown provider error"
MessageOf(error) == IF error.isError THEN error.message ELSE "Unknown provider error"

InitRefresh ==
  /\ providerStatus = [p \in Providers |-> InitialStatus(p, DisplayNameOf(p))]
  /\ projects = <<>>
  /\ deployments = <<>>
  /\ fetchedAt = undefinedAt
  /\ subscribed = FALSE
  /\ fired = 0
  /\ GateIdle
  /\ DetIdle
  /\ CallIdle
  /\ observing = TRUE
  /\ observed = NoEvent
  /\ SchedIdle
  /\ RetryIdle
  /\ task = [p \in Providers |-> Idle]
  /\ hadError = FALSE
  /\ runAt = undefinedAt
  /\ startRows = [projects |-> <<>>, deployments |-> <<>>]
  /\ completed = <<>>
  /\ logout = [p \in Providers |-> LoggedIn]

\* refreshProviders is called: every callback reads the clock and awaits
\* authManager.isAuthenticated.
startRefresh ==
  /\ \A p \in Providers : task[p] = Idle
  /\ runAt < MaxTime
  /\ runAt' = runAt + 1
  /\ task' = [p \in Providers |-> AwaitingAuth]
  /\ hadError' = FALSE
  /\ startRows' = [projects |-> projects, deployments |-> deployments]
  /\ completed' = <<>>
  /\ fired' = 0
  /\ UNCHANGED <<providerStatus, projects, deployments, fetchedAt, subscribed>>
  /\ UNCHANGED <<gateVars, detVars, retryVars, observerVars, logout>>

StartRefresh ==
  /\ startRefresh
  /\ UNCHANGED <<schedVars, call>>

\* What authManager.isAuthenticated(p) may resolve with: false once logout
\* cleared the session, else whether a session is stored
isAuthenticated(p) == IF logout[p] = LoggedIn THEN BOOLEAN ELSE {FALSE}

\* A callback that counts a provider that is not connected as an error
AuthResolvedAsError(p) ==
  /\ task[p] = AwaitingAuth
  /\ \E isConnected \in isAuthenticated(p) :
       IF ~isConnected
       THEN /\ markProviderDisconnected(p, "Not connected", runAt)
            /\ task' = [task EXCEPT ![p] = [at |-> "done", outcome |-> "not connected"]]
            /\ completed' = Append(completed, p)
            /\ hadError' = TRUE
       ELSE /\ task' = [task EXCEPT ![p] = Fetching]
            /\ fired' = 0
            /\ UNCHANGED <<providerStatus, projects, deployments, fetchedAt, subscribed>>
            /\ UNCHANGED <<gateVars, completed, observerVars, hadError>>
  /\ UNCHANGED <<runAt, startRows, logout, detVars, schedVars, retryVars, call>>

AuthResolved(p) ==
  /\ task[p] = AwaitingAuth
  /\ \E isConnected \in isAuthenticated(p) :
       IF ~isConnected
       THEN /\ markProviderDisconnected(p, "Not connected", runAt)
            /\ task' = [task EXCEPT ![p] = [at |-> "done", outcome |-> "not connected"]]
            /\ completed' = Append(completed, p)
       ELSE /\ task' = [task EXCEPT ![p] = Fetching]
            /\ fired' = 0
            /\ UNCHANGED <<providerStatus, projects, deployments, fetchedAt, subscribed>>
            /\ UNCHANGED <<gateVars, completed, observerVars>>
  /\ UNCHANGED <<hadError, runAt, startRows, logout, detVars, schedVars, retryVars, call>>

FetchReturned(p) ==
  /\ task[p] = Fetching
  /\ \E result \in RefreshResults(p, runAt) :
       /\ applyProviderResult(result)
       /\ task' = [task EXCEPT ![p] = [at |-> "done", outcome |-> "applied", result |-> result]]
  /\ completed' = Append(completed, p)
  /\ UNCHANGED <<hadError, runAt, startRows, logout, detVars, schedVars, retryVars, call>>

FetchThrew(p) ==
  /\ task[p] = Fetching
  /\ hadError' = TRUE
  /\ \E error \in Thrown :
       /\ applyProviderResult(ErrorResult(p, MessageOf(error), runAt))
       /\ task' = [task EXCEPT ![p] = [at |-> "done", outcome |-> "threw",
                                       message |-> MessageOf(error)]]
  /\ completed' = Append(completed, p)
  /\ UNCHANGED <<runAt, startRows, logout, detVars, schedVars, retryVars, call>>

\* Promise.all settles and the run ends
finishRefresh ==
  /\ \A p \in Providers : Done(p)
  /\ task' = [p \in Providers |-> Idle]
  /\ fired' = 0
  /\ UNCHANGED <<providerStatus, projects, deployments, fetchedAt, subscribed>>
  /\ UNCHANGED <<gateVars, detVars, retryVars, hadError, runAt, startRows, completed, logout, observerVars>>

FinishRefresh ==
  /\ finishRefresh
  /\ UNCHANGED <<schedVars, call>>

\* A refresh that resolves whatever its fetches did
refreshSettlesResolved(failed) == Fulfilled

\* if (hadError) { throw new Error(...) }
refreshSettles(failed) == IF failed THEN Rejected(RefreshError) ELSE Fulfilled

NextRefresh ==
  \/ StartRefresh
  \/ \E p \in Providers : AuthResolved(p)
  \/ \E p \in Providers : FetchReturned(p)
  \/ \E p \in Providers : FetchThrew(p)
  \/ FinishRefresh

SpecRefresh == InitRefresh /\ [][NextRefresh]_vars

----------------------------------------------------------------------------
(* extension.ts: refresh runs while the command deployify.disconnectProvider *)
(* is invoked for a provider: await adapter.logout(), then                   *)
(* store.markProviderDisconnected(adapter.id, "Disconnected").               *)

Logout(p) ==
  /\ logout[p] = LoggedIn
  /\ logout' = [logout EXCEPT ![p] = SessionCleared]
  /\ fired' = 0
  /\ UNCHANGED <<providerStatus, projects, deployments, fetchedAt, subscribed>>
  /\ UNCHANGED <<gateVars, observerVars, detVars, schedVars, retryVars, call>>
  /\ UNCHANGED <<task, hadError, runAt, startRows, completed>>

MarkDisconnected(p) ==
  /\ logout[p] = SessionCleared
  /\ logout' = [logout EXCEPT ![p] = MarkedDisconnected]
  /\ markProviderDisconnected(p, "Disconnected", runAt)
  /\ UNCHANGED <<detVars, schedVars, retryVars, call>>
  /\ UNCHANGED <<task, hadError, runAt, startRows, completed>>

NextDisconnect ==
  \/ NextRefresh
  \/ \E p \in Providers : Logout(p)
  \/ \E p \in Providers : MarkDisconnected(p)

SpecDisconnect == InitRefresh /\ [][NextDisconnect]_vars

----------------------------------------------------------------------------
(* pollingScheduler.ts: a scheduler as activate() constructs it, its       *)
(* methods called in any order, its timeout expiring at any moment and the *)
(* task resolving or rejecting.                                            *)

\* Values of deployify.pollIntervalSeconds: below the floor, the default, a long one
PollSeconds == {1, DefaultPollIntervalSeconds, 600}

\* Math.floor(Math.random() * 400): the ends of its range and a value between
Jitters == {0, 200, JitterBoundMs - 1}

\* What the task rejects with
TaskErrors == {RefreshError, "boom"}

Others == <<storeVars, gateVars, detVars, refreshVars, observerVars, retryVars>>

InitSched ==
  /\ running = FALSE
  /\ failureCount = 0
  /\ requested \in PollSeconds
  /\ pollIntervalMs = IntervalMs(requested)
  /\ timer = NoTimer
  /\ timeouts = <<>>
  /\ timerRuns = 0
  /\ triggerRuns = 0
  /\ invocations = 0
  /\ started = FALSE
  /\ StoreIdle
  /\ GateIdle
  /\ DetIdle
  /\ CallIdle
  /\ RefreshIdle
  /\ ObserverIdle
  /\ RetryIdle

Start ==
  /\ start
  /\ call' = [op |-> "start"]
  /\ UNCHANGED Others

Stop ==
  /\ stop
  /\ call' = [op |-> "stop"]
  /\ UNCHANGED Others

SetPollIntervalSeconds ==
  \E seconds \in PollSeconds :
    /\ setPollIntervalSeconds(seconds)
    /\ call' = [op |-> "setPollIntervalSeconds", seconds |-> seconds]
    /\ UNCHANGED Others

TimerExpires ==
  \E i \in 1..Len(timeouts) :
    /\ invocations < MaxRuns
    /\ runTask(i)
    /\ call' = [op |-> "runTask"]
    /\ UNCHANGED Others

TimerRunResolved ==
  /\ runTaskResolved
  /\ call' = [op |-> "runTask settled", ok |-> TRUE, failures |-> failureCount,
               promise |-> Fulfilled]
  /\ UNCHANGED Others

TimerRunRejected ==
  \E jitterMs \in Jitters, error \in TaskErrors :
    /\ runTaskRejected(jitterMs)
    /\ call' = [op |-> "runTask settled", ok |-> FALSE, failures |-> failureCount,
                 thrown |-> error, promise |-> runTaskCaught(error)]
    /\ UNCHANGED Others

TriggerNow ==
  /\ invocations < MaxRuns
  /\ triggerNow
  /\ call' = [op |-> "triggerNow"]
  /\ UNCHANGED Others

TriggerNowResolved ==
  /\ triggerNowResolved
  /\ call' = [op |-> "triggerNow settled", ok |-> TRUE, failures |-> failureCount,
               promise |-> Fulfilled]
  /\ UNCHANGED Others

TriggerNowRejected ==
  \E jitterMs \in Jitters, error \in TaskErrors :
    /\ triggerNowRejected(jitterMs)
    /\ call' = [op |-> "triggerNow settled", ok |-> FALSE, failures |-> failureCount,
                 thrown |-> error, promise |-> triggerNowCaught(error)]
    /\ UNCHANGED Others

NextSched ==
  \/ Start \/ Stop \/ SetPollIntervalSeconds
  \/ TimerExpires \/ TimerRunResolved \/ TimerRunRejected
  \/ TriggerNow \/ TriggerNowResolved \/ TriggerNowRejected

SpecSched == InitSched /\ [][NextSched]_vars

----------------------------------------------------------------------------
(* The polling loop on its own: start(), the timer and the runs it begins, *)
(* setPollIntervalSeconds() and a stop() after which start() is not called *)
(* again; triggerNow() is not called.                                      *)

LoopStart ==
  /\ ~started \/ running
  /\ Start

LoopStop ==
  /\ started
  /\ Stop

NextLoop ==
  \/ LoopStart \/ LoopStop \/ SetPollIntervalSeconds
  \/ TimerExpires \/ TimerRunResolved \/ TimerRunRejected

SpecLoop == InitSched /\ [][NextLoop]_vars

----------------------------------------------------------------------------
(* The scheduler running without end: at most MaxRuns runs of each kind in *)
(* flight and at most MaxRuns failures in a row.  A pending timeout        *)
(* expires unless it is cleared, and every invocation of the task settles. *)

LiveTimerExpires ==
  \E i \in 1..Len(timeouts) :
    /\ timerRuns < MaxRuns
    /\ runTask(i)
    /\ call' = [op |-> "runTask"]
    /\ UNCHANGED Others

LiveTimerRunRejected ==
  /\ failureCount < MaxRuns
  /\ TimerRunRejected

LiveTriggerNow ==
  /\ triggerRuns < MaxRuns
  /\ triggerNow
  /\ call' = [op |-> "triggerNow"]
  /\ UNCHANGED Others

LiveTriggerNowRejected ==
  /\ failureCount < MaxRuns
  /\ TriggerNowRejected

NextSchedLive ==
  \/ Start \/ Stop \/ SetPollIntervalSeconds
  \/ LiveTimerExpires \/ TimerRunResolved \/ LiveTimerRunRejected
  \/ LiveTriggerNow \/ TriggerNowResolved \/ LiveTriggerNowRejected

SpecSchedLive ==
  /\ InitSched
  /\ [][NextSchedLive]_vars
  /\ WF_vars(LiveTimerExpires)
  /\ WF_vars(TimerRunResolved \/ LiveTimerRunRejected)
  /\ WF_vars(TriggerNowResolved \/ LiveTriggerNowRejected)

----------------------------------------------------------------------------
(* extension.ts: the scheduler with refreshProviders as its task, as       *)
(* activate() wires them.  One run of the task is followed at a time,      *)
(* begun by the timer or by triggerNow().                                  *)

NotPolling == <<storeVars, gateVars, detVars, refreshVars, observerVars, retryVars>>

PollStart ==
  /\ start
  /\ call' = [op |-> "start"]
  /\ UNCHANGED NotPolling

PollTimerExpires ==
  \E i \in 1..Len(timeouts) :
    /\ running
    /\ runTask(i)
    /\ startRefresh
    /\ call' = [op |-> "runTask"]

PollTriggerNow ==
  /\ triggerNow
  /\ startRefresh
  /\ call' = [op |-> "triggerNow"]

\* refreshProviders settles and the method that awaits it resumes
PollRunSettles ==
  /\ finishRefresh
  /\ \E outcome \in {refreshSettles(hadError)}, jitterMs \in Jitters :
       IF triggerRuns > 0
       THEN /\ IF outcome = Fulfilled
               THEN triggerNowResolved
               ELSE triggerNowRejected(jitterMs)
            /\ call' = [op |-> "triggerNow settled", ok |-> outcome = Fulfilled,
                        failures |-> failureCount,
                        promise |-> IF outcome = Fulfilled THEN Fulfilled
                                    ELSE triggerNowCaught(outcome.reason)]
       ELSE /\ IF outcome = Fulfilled
               THEN runTaskResolved
               ELSE runTaskRejected(jitterMs)
            /\ call' = [op |-> "runTask settled", ok |-> outcome = Fulfilled,
                        failures |-> failureCount,
                        promise |-> IF outcome = Fulfilled THEN Fulfilled
                                    ELSE runTaskCaught(outcome.reason)]

NextPoll ==
  \/ PollStart \/ PollTimerExpires \/ PollTriggerNow
  \/ \E p \in Providers : AuthResolved(p)
  \/ \E p \in Providers : FetchReturned(p)
  \/ \E p \in Providers : FetchThrew(p)
  \/ PollRunSettles

SpecPoll == InitRefresh /\ [][NextPoll]_vars

----------------------------------------------------------------------------
(* http.ts: one call of withRetry, fn resolving or rejecting at each of    *)
(* its invocations.                                                        *)

MaxAttempts == 3

\* maxAttempts as passed: the adapters pass 3; 0 is below the first invocation
AttemptLimits == 0..MaxAttempts

\* baseDelayMs as the adapters pass it
BaseDelays == {500}

RetryPredicates == {"isRateLimitedOrServerError", "always"}

StatusCodes == {404, 429, 499, 500}

FnErrors == {HttpError(statusCode) : statusCode \in StatusCodes} \cup {TransportError}

FnValues == {"json"}

\* Math.floor(Math.random() * 150): the ends of its range
RetryJitters == {0, RetryJitterBoundMs - 1}

InitRetry ==
  /\ \E limit \in AttemptLimits, delay \in BaseDelays, predicate \in RetryPredicates :
       withRetry(limit, delay, predicate)
  /\ StoreIdle
  /\ GateIdle
  /\ DetIdle
  /\ CallIdle
  /\ RefreshIdle
  /\ ObserverIdle
  /\ SchedIdle

NotRetry == <<storeVars, gateVars, detVars, refreshVars, observerVars, schedVars>>

FnResolved ==
  \E value \in FnValues :
    /\ fnResolved(value)
    /\ call' = [op |-> "fn resolved", value |-> value]
    /\ UNCHANGED NotRetry

FnRejected ==
  \E error \in FnErrors, jitter \in RetryJitters :
    /\ fnRejected(error, jitter)
    /\ call' = [op |-> "fn rejected", error |-> error]
    /\ UNCHANGED NotRetry

RetryTimeoutElapsed ==
  /\ retryTimeoutElapsed
  /\ call' = [op |-> "timeout"]
  /\ UNCHANGED NotRetry

NextRetry == FnResolved \/ FnRejected \/ RetryTimeoutElapsed

SpecRetry == InitRetry /\ [][NextRetry]_vars

----------------------------------------------------------------------------
(* Claims about the detector and the notification gate *)

SameSlot(a, b) ==
  /\ a.provider = b.provider
  /\ a.projectId = b.projectId
  /\ a.environment = b.environment

\* The index of the last entry of list in d's slot, 0 when there is none
LastOfSlot(list, d) ==
  LET hit == {i \in 1..Len(list) : SameSlot(list[i], d)}
  IN IF hit = {} THEN 0 ELSE CHOOSE i \in hit : \A j \in hit : j <= i

FreshFailure(previous, d) ==
  /\ d.state = "failed"
  /\ \/ LastOfSlot(previous, d) = 0
     \/ previous[LastOfSlot(previous, d)].state # "failed"

\* C1: findNewlyFailedDeployments returns, in the order of current, exactly the
\* failed entries of current whose slot (provider, projectId, environment) is
\* absent from previous or whose last entry in previous is not failed.
C1_FreshFailures ==
  detDone => detResult = SelectSeq(detCurrent, LAMBDA d : FreshFailure(detPrevious, d))

\* previous lists a slot twice, failed then ready, and current's failed entry
\* of that slot is reported.
C1_Witness ==
  /\ detDone
  /\ Len(detPrevious) = 2
  /\ SameSlot(detPrevious[1], detPrevious[2])
  /\ detPrevious[1].state = "failed"
  /\ detPrevious[2].state = "ready"
  /\ \E k \in 1..Len(detCurrent) :
       /\ SameSlot(detCurrent[k], detPrevious[2])
       /\ detCurrent[k].state = "failed"
       /\ detCurrent[k] \in Range(detResult)

\* The deployments of the snapshot the step's update event carries as current
CurrentDeployments == SortBy("deployments", deployments')

\* C2: with notifyOnFailure enabled at every event so far, the first update
\* event handled shows no alert, and every later one shows exactly
\* findNewlyFailedDeployments(previous.deployments, current.deployments).
C2_GateAlerts ==
  [][ (fired' = 1 /\ alwaysEnabled /\ notifyOnFailure) =>
        IF ~anyEvent
        THEN alerts' = <<>>
        ELSE alerts' = findNewlyFailedDeployments(getSnapshot.deployments,
                                                  CurrentDeployments) ]_vars

\* A later event, every event handled with the setting on, has shown an alert.
C2_Witness ==
  /\ fired = 1
  /\ anyEvent
  /\ alwaysEnabled
  /\ notifyOnFailure
  /\ Len(alerts) = 1

\* C3: once the gate is primed, an update event shows no alert for a
\* deployment that is failed and the same in its previous and current snapshot.
C3_OncePerTransition ==
  [][ (fired' = 1 /\ hasPrimed) =>
        \A d \in Range(alerts') :
          ~(d.state = "failed" /\ d \in Range(deployments) /\ d \in Range(deployments')) ]_vars

\* provider p's first successful result since activation is applied in this step
FirstSuccess(p) ==
  /\ providerStatus[p].lastSuccessAt = undefinedAt
  /\ providerStatus'[p].lastSuccessAt # undefinedAt

\* C4: with notifications enabled, the event of a provider's first successful
\* result after activation shows no alert for that provider's deployments.
C4_NoStartupAlerts ==
  [][ (fired' = 1 /\ alwaysEnabled /\ notifyOnFailure) =>
        \A p \in Providers :
          FirstSuccess(p) => \A d \in Range(alerts') : d.provider # p ]_vars

SlotOf(list, d) == {e \in Range(list) : SameSlot(e, d)}

\* d is the one most recently updated deployment of its slot in list
MostRecent(list, d) ==
  /\ d \in Range(list)
  /\ \A e \in SlotOf(list, d) : e = d \/ e.updatedAt < d.updatedAt

\* C5: once primed and with notifications enabled, an event whose current
\* snapshot has a failed deployment as the most recently updated one of a slot
\* whose most recently updated deployment in the previous snapshot was not
\* failed, or whose slot was absent there, shows an alert for it.
C5_FirstTransitionAlerted ==
  [][ (fired' = 1 /\ hasPrimed /\ notifyOnFailure) =>
        \A d \in Range(deployments') :
          ( /\ d.state = "failed"
            /\ MostRecent(deployments', d)
            /\ \/ SlotOf(deployments, d) = {}
               \/ \E e \in SlotOf(deployments, d) :
                    MostRecent(deployments, e) /\ e.state # "failed" )
          => d \in Range(alerts') ]_vars

----------------------------------------------------------------------------
(* Claims about the store *)

RowsOf(rows, provider) == {row \in Range(rows) : row.provider = provider}

\* the step is a call of applyProviderResult
Applied == call'.op = "applyProviderResult"

\* C6: applyProviderResult with a truthy error leaves every project row and
\* deployment row, the store-wide fetchedAt and the provider's lastSuccessAt
\* as they were, and sets the provider's lastAttemptAt to the result's
\* fetchedAt, error to the message, and staleSince to its previous value if it
\* had one, else to the result's fetchedAt.
C6_ErrorPreserves ==
  [][ (Applied /\ Truthy(call'.result.error)) =>
          LET result == call'.result
              p == result.provider
              known == p \in DOMAIN providerStatus
          IN /\ projects' = projects
             /\ deployments' = deployments
             /\ fetchedAt' = fetchedAt
             /\ providerStatus'[p].lastSuccessAt =
                  (IF known THEN providerStatus[p].lastSuccessAt ELSE undefinedAt)
             /\ providerStatus'[p].lastAttemptAt = result.fetchedAt
             /\ providerStatus'[p].error = result.error
             /\ providerStatus'[p].staleSince =
                  (IF known /\ providerStatus[p].staleSince # undefinedAt
                   THEN providerStatus[p].staleSince
                   ELSE result.fetchedAt) ]_vars

\* A second error in a row, later than the first: the provider's rows are
\* still stored and staleSince is the first error's fetchedAt.
C6_Witness ==
  /\ call.op = "applyProviderResult"
  /\ Truthy(call.result.error)
  /\ call.result.deployments = <<>>
  /\ RowsOf(deployments, call.result.provider) # {}
  /\ RowsOf(projects, call.result.provider) # {}
  /\ providerStatus[call.result.provider].staleSince = 1
  /\ call.result.fetchedAt = 2

\* each identity listed in incoming has exactly one row among rows, and every
\* row is an entry of incoming
OnePerDeployment(rows, incoming) ==
  /\ rows \subseteq Range(incoming)
  /\ \A x \in Range(incoming) :
       Cardinality({row \in rows : deploymentKey(row) = deploymentKey(x)}) = 1

OnePerProject(rows, incoming) ==
  /\ rows \subseteq Range(incoming)
  /\ \A x \in Range(incoming) :
       Cardinality({row \in rows : row.projectId = x.projectId}) = 1

\* C7: after applyProviderResult with no error for provider p, the project
\* rows and the deployment rows of p are exactly those of the result, one per
\* identity; p's status has lastAttemptAt = lastSuccessAt = fetchedAt with
\* staleSince and error cleared; the store-wide fetchedAt is the result's.
C7_SuccessReplaces ==
  [][ (Applied /\ ~Truthy(call'.result.error)) =>
          LET result == call'.result
              p == result.provider
          IN /\ OnePerDeployment(RowsOf(deployments', p), result.deployments)
             /\ OnePerProject(RowsOf(projects', p), result.projects)
             /\ Cardinality(Range(deployments')) = Len(deployments')
             /\ Cardinality(Range(projects')) = Len(projects')
             /\ providerStatus'[p].lastAttemptAt = result.fetchedAt
             /\ providerStatus'[p].lastSuccessAt = result.fetchedAt
             /\ providerStatus'[p].staleSince = undefinedAt
             /\ ~Truthy(providerStatus'[p].error)
             /\ fetchedAt' = result.fetchedAt ]_vars

\* A result that lists one identity twice and no project has been applied
\* over a stale provider: one deployment row, no project row, status cleared.
C7_Witness ==
  /\ call.op = "applyProviderResult"
  /\ ~Truthy(call.result.error)
  /\ call.result.provider = "vercel"
  /\ Len(call.result.deployments) = 2
  /\ call.result.projects = <<>>
  /\ Cardinality(RowsOf(deployments, "vercel")) = 1
  /\ RowsOf(projects, "vercel") = {}
  /\ RowsOf(deployments, "netlify") # {}
  /\ providerStatus["vercel"].staleSince = undefinedAt
  /\ fetchedAt = 2

\* C8: when two successful results for one provider are applied one after the
\* other and the second lists identity X with an older updatedAt than the
\* first, the store keeps the first result's row for X.
C8_MonotonicMerge ==
  [][ ( /\ call.op = "applyProviderResult"
        /\ ~Truthy(call.result.error)
        /\ Applied
        /\ ~Truthy(call'.result.error)
        /\ call'.result.provider = call.result.provider ) =>
          \A first \in RowsOf(deployments, call.result.provider) :
            \A second \in Range(call'.result.deployments) :
              ( /\ deploymentKey(second) = deploymentKey(first)
                /\ second.updatedAt < first.updatedAt )
              => first \in Range(deployments') ]_vars

Disconnected(p) == call'.op = "markProviderDisconnected" /\ call'.provider = p

\* C9: markProviderDisconnected(p, message) on a known provider leaves no
\* project and no deployment of p, sets p's connected to false, error to the
\* message, clears staleSince and emits one update event; on an unknown
\* provider it changes nothing and emits no event.
C9_DisconnectPurges ==
  [][ \A p \in Providers : Disconnected(p) =>
        IF p \in DOMAIN providerStatus
        THEN /\ RowsOf(SortBy("projects", projects'), p) = {}
             /\ RowsOf(CurrentDeployments, p) = {}
             /\ providerStatus'[p].connected = FALSE
             /\ providerStatus'[p].error = call'.message
             /\ providerStatus'[p].staleSince = undefinedAt
             /\ fired' = 1
        ELSE /\ UNCHANGED <<providerStatus, projects, deployments, fetchedAt>>
             /\ fired' = 0 ]_vars

\* A provider that had succeeded and then gone stale has been disconnected,
\* and the other provider's rows are still stored.
C9_Witness ==
  /\ call.op = "markProviderDisconnected"
  /\ call.provider \in DOMAIN providerStatus
  /\ providerStatus[call.provider].lastSuccessAt # undefinedAt
  /\ providerStatus[call.provider].connected = FALSE
  /\ providerStatus[call.provider].error = "Disconnected"
  /\ providerStatus[call.provider].lastAttemptAt > providerStatus[call.provider].lastSuccessAt
  /\ RowsOf(deployments, call.provider) = {}
  /\ deployments # <<>>
  /\ fired = 1

----------------------------------------------------------------------------
(* Claims about refreshProviders *)

Threw(p) == Done(p) /\ task[p].outcome = "threw"

Returned(p) == Done(p) /\ task[p].outcome = "applied"

----------------------------------------------------------------------------
(* Claims about the update events *)

\* a callback of the refresh run makes its store call in this step
Mutates == \E p \in Providers : ~Done(p) /\ task'[p].at = "done"

\* C11: every applyProviderResult call and every markProviderDisconnected call
\* on a known provider fires one update event, whose previous is the snapshot
\* before the mutation and whose current is the snapshot after it; of two
\* consecutive events the later one's previous projects and deployments are
\* the earlier one's current projects and deployments.
C11_EventPerMutation ==
  [][ Mutates =>
        /\ fired' = 1
        /\ observed' = [ previous |-> getSnapshot,
                         current |-> Snapshot(projects', deployments',
                                              providerStatus', fetchedAt') ]
        /\ observed # NoEvent =>
             /\ observed'.previous.projects = observed.current.projects
             /\ observed'.previous.deployments = observed.current.deployments ]_vars

\* An event that followed another one and whose mutation replaced a
\* provider's deployment while the other provider's stayed.
C11_Witness ==
  /\ fired = 1
  /\ observed # NoEvent
  /\ Len(observed.previous.deployments) = 2
  /\ Len(observed.current.deployments) = 2
  /\ observed.previous.deployments # observed.current.deployments

----------------------------------------------------------------------------
(* Claims about the snapshot *)

\* list is in the order of the comparator getSnapshot sorts by
Ordered(by, list) ==
  \A i, j \in 1..Len(list) : i < j => compare(by, list[i], list[j]) <= 0

\* The insertion orders in which a Map can hold the entries of rows.  Each is
\* reached by listing a provider's rows in that order, or by applying the
\* providers' results in another order.
InsertionOrders(rows) ==
  {other \in [1..Len(rows) -> Range(rows)] : Range(other) = Range(rows)}

\* C12: in every snapshot projects are ordered by (provider, name), deployments
\* by (provider, projectId, environment, updatedAt descending) and providers by
\* displayName, and a store holding the same rows in another insertion order
\* returns the same snapshot.
C12_SnapshotOfRowsOnly ==
  /\ Ordered("projects", getSnapshot.projects)
  /\ Ordered("deployments", getSnapshot.deployments)
  /\ Ordered("providers", getSnapshot.providers)
  /\ \A other \in InsertionOrders(projects) :
       SortBy("projects", other) = getSnapshot.projects
  /\ \A other \in InsertionOrders(deployments) :
       SortBy("deployments", other) = getSnapshot.deployments

\* C13: in every snapshot no two projects share (provider, projectId) and no
\* two deployments share (provider, projectId, deploymentId), also after a
\* result that lists one identity more than once.
C13_UniqueIdentities ==
  /\ \A i, j \in 1..Len(getSnapshot.projects) :
       ( /\ getSnapshot.projects[i].provider = getSnapshot.projects[j].provider
         /\ getSnapshot.projects[i].projectId = getSnapshot.projects[j].projectId )
       => i = j
  /\ \A i, j \in 1..Len(getSnapshot.deployments) :
       ( /\ getSnapshot.deployments[i].provider = getSnapshot.deployments[j].provider
         /\ getSnapshot.deployments[i].projectId = getSnapshot.deployments[j].projectId
         /\ getSnapshot.deployments[i].deploymentId = getSnapshot.deployments[j].deploymentId )
       => i = j

\* The result applied last listed d1 twice, older report first, and the
\* snapshot holds the newer report alone.
C13_Witness ==
  /\ call.op = "applyProviderResult"
  /\ call.result.deployments = <<StoreDeployment("d1", 1), StoreDeployment("d1", 2)>>
  /\ getSnapshot.deployments = <<StoreDeployment("d1", 2)>>

----------------------------------------------------------------------------
(* Claims about the polling scheduler *)

Settled == call'.op \in {"runTask settled", "triggerNow settled"}

\* The scheduler's own fields and its timeouts, without the history of start()
SchedulerState ==
  <<running, failureCount, pollIntervalMs, timer, timeouts, timerRuns, triggerRuns, invocations>>

\* C14: start() on a stopped scheduler sets running and arms one timeout of
\* delay 0 without invoking the task itself, and until the task is first
\* invoked that timeout stays the one pending; start() on a running scheduler
\* changes nothing: the pending timeout is neither re-armed nor reset and no
\* further timeout or run appears.
C14_StartArmsOnce ==
  /\ [][ call'.op = "start" =>
           IF running
           THEN UNCHANGED SchedulerState
           ELSE /\ running'
                /\ timer' = PendingTimer
                /\ timeouts' = <<0>>
                /\ UNCHANGED <<failureCount, pollIntervalMs, timerRuns, triggerRuns, invocations>> ]_vars
  /\ [](running /\ invocations = 0 => timeouts = <<0>>)

\* start() was called on a running scheduler whose poll timeout was pending
C14_Witness ==
  /\ call.op = "start"
  /\ running
  /\ invocations > 0
  /\ timeouts = <<pollIntervalMs>>

\* C15: when a timer-driven run resolves while the scheduler is running,
\* failureCount becomes 0 and the one timeout armed has exactly the
\* pollIntervalMs of that moment, whatever failureCount was.
C15_SuccessResets ==
  [][ call'.op = "runTask settled" /\ call'.ok /\ running =>
        /\ failureCount' = 0
        /\ timer' = PendingTimer
        /\ timeouts' = <<pollIntervalMs>>
        /\ pollIntervalMs' = pollIntervalMs ]_vars

\* A tick resolved after two failures, on a running scheduler
C15_Witness ==
  /\ call.op = "runTask settled"
  /\ call.ok
  /\ call.failures = 2
  /\ running
  /\ failureCount = 0
  /\ timeouts = <<pollIntervalMs>>

\* C16: when a run rejects while the scheduler is running, failureCount grows
\* by one and the timeout armed has delay
\* min(300000, pollIntervalMs * 2^failureCount) + j with the new failureCount
\* and 0 <= j < 400, for a timer tick and for triggerNow() alike.
C16_BackoffDelay ==
  [][ Settled /\ ~call'.ok /\ running =>
        /\ failureCount' = failureCount + 1
        /\ timer' = PendingTimer
        /\ Len(timeouts') = 1
        /\ \E j \in 0..(JitterBoundMs - 1) :
             timeouts'[1] = Min(BackoffCapMs, pollIntervalMs * 2^(failureCount + 1)) + j ]_vars

\* A triggerNow() rejected as the second failure in a row, below the cap
C16_Witness ==
  /\ call.op = "triggerNow settled"
  /\ ~call.ok
  /\ running
  /\ failureCount = 2
  /\ timeouts = <<4 * pollIntervalMs + 200>>

\* C17: for every poll interval at or above the floor and every failureCount
\* >= 1, the delay armed after a rejected run is greater than pollIntervalMs,
\* at least 2 * pollIntervalMs - 400 and at most 300000 + 400.
C17_BackoffBounds ==
  [][ Settled /\ ~call'.ok /\ running =>
        /\ Len(timeouts') = 1
        /\ timeouts'[1] > pollIntervalMs
        /\ timeouts'[1] >= 2 * pollIntervalMs - JitterBoundMs
        /\ timeouts'[1] <= BackoffCapMs + JitterBoundMs ]_vars

\* C18: while the scheduler is not running no timeout is pending and no
\* timer-driven run begins; a run in flight at stop() settles without arming
\* one, resolved or rejected, tick or triggerNow().
C18_StoppedStaysQuiet ==
  /\ [](~running => timeouts = <<>> /\ timer = NoTimer)
  /\ [][ ~running => timerRuns' <= timerRuns ]_vars
  /\ [][ Settled /\ ~running => timeouts' = <<>> /\ timer' = NoTimer ]_vars

\* A tick that was in flight at stop() rejected afterwards
C18_Witness ==
  /\ call.op = "runTask settled"
  /\ ~call.ok
  /\ ~running
  /\ failureCount > 0
  /\ timeouts = <<>>

\* C19: every triggerNow() invokes the task once, running or not, and settles
\* only after that invocation; on a scheduler never started it arms no
\* timeout, so the task is invoked only by triggerNow(), once per call.
C19_TriggerRunsOnce ==
  /\ [][ call'.op = "triggerNow" =>
           /\ invocations' = invocations + 1
           /\ triggerRuns' = triggerRuns + 1
           /\ UNCHANGED <<running, failureCount, timer, timeouts, timerRuns>> ]_vars
  /\ [][ call'.op = "triggerNow settled" =>
           /\ triggerRuns > 0
           /\ triggerRuns' = triggerRuns - 1
           /\ invocations' = invocations ]_vars
  /\ [](~started => timeouts = <<>> /\ timer = NoTimer /\ timerRuns = 0)
  /\ [][ ~started' /\ invocations' # invocations => call'.op = "triggerNow" ]_vars

\* The one triggerNow() of a scheduler never started has settled
C19_Witness ==
  /\ ~started
  /\ call.op = "triggerNow settled"
  /\ invocations = 1
  /\ triggerRuns = 0
  /\ timeouts = <<>>

\* C20: when the task of a triggerNow() settles while the scheduler is
\* running, failureCount becomes 0 or grows by one, the timeout still pending
\* is cancelled and exactly one is armed, with pollIntervalMs or the backoff
\* delay; when the scheduler is not running failureCount changes the same way
\* and no timeout is armed.
C20_TriggerReschedules ==
  [][ call'.op = "triggerNow settled" =>
        /\ failureCount' = IF call'.ok THEN 0 ELSE failureCount + 1
        /\ IF running
           THEN /\ timer' = PendingTimer
                /\ Len(timeouts') = 1
                /\ IF call'.ok
                   THEN timeouts'[1] = pollIntervalMs
                   ELSE timeouts'[1] - BackoffMs(pollIntervalMs, failureCount + 1)
                          \in 0..(JitterBoundMs - 1)
           ELSE UNCHANGED <<timer, timeouts>> ]_vars

\* A triggerNow() resolved on a running scheduler while the timeout of
\* start() was still pending
C20_Witness ==
  /\ call.op = "triggerNow settled"
  /\ call.ok
  /\ running
  /\ invocations = 1
  /\ timeouts = <<pollIntervalMs>>

\* C21: a tick always resolves, also when the task rejected, after the
\* failure was counted and the retry armed; a triggerNow() whose task rejected
\* rejects with the same error, after failureCount grew by one and, if the
\* scheduler is running, the retry was armed.
C21_TickSwallowsTriggerRethrows ==
  /\ [][ call'.op = "runTask settled" =>
           /\ call'.promise = Fulfilled
           /\ ~call'.ok =>
                /\ failureCount' = failureCount + 1
                /\ running => timer' = PendingTimer /\ Len(timeouts') = 1 ]_vars
  /\ [][ call'.op = "triggerNow settled" /\ ~call'.ok =>
           /\ call'.promise = Rejected(call'.thrown)
           /\ failureCount' = failureCount + 1
           /\ running => timer' = PendingTimer /\ Len(timeouts') = 1 ]_vars

\* A triggerNow() on a running scheduler rejected with the task's error and
\* left the retry pending
C21_Witness ==
  /\ call.op = "triggerNow settled"
  /\ ~call.ok
  /\ call.promise = Rejected(RefreshError)
  /\ running
  /\ failureCount = 1
  /\ Len(timeouts) = 1

\* C22: in every state pollIntervalMs is 1000 * max(minimumIntervalSeconds,
\* the seconds requested last), hence at least the floor of 20 s, and no
\* timeout armed after a successful run has a delay below the floor.
C22_IntervalFloor ==
  /\ [](/\ pollIntervalMs = 1000 * (IF requested > MinimumIntervalSeconds
                                    THEN requested ELSE MinimumIntervalSeconds)
        /\ pollIntervalMs >= 1000 * MinimumIntervalSeconds)
  /\ [][ Settled /\ call'.ok /\ running =>
           /\ Len(timeouts') = 1
           /\ timeouts'[1] >= 1000 * MinimumIntervalSeconds ]_vars

\* An interval below the floor was requested while running, and a run that
\* resolved afterwards armed the floor
C22_Witness ==
  /\ requested < MinimumIntervalSeconds
  /\ call.op \in {"runTask settled", "triggerNow settled"}
  /\ call.ok
  /\ running
  /\ timeouts = <<1000 * MinimumIntervalSeconds>>

\* C23: setPollIntervalSeconds changes pollIntervalMs only: running,
\* failureCount, the timer and its pending timeout stay as they are and no
\* run of the task starts; the next timeout armed after a successful run has
\* the new interval.
C23_IntervalChangeOnly ==
  /\ [][ call'.op = "setPollIntervalSeconds" =>
           /\ pollIntervalMs' = IntervalMs(call'.seconds)
           /\ UNCHANGED <<running, failureCount, timer, timeouts,
                          timerRuns, triggerRuns, invocations>> ]_vars
  /\ [][ Settled /\ call'.ok /\ running => timeouts' = <<IntervalMs(requested)>> ]_vars

\* The interval was changed while a timeout armed with the old one was pending
C23_Witness ==
  /\ call.op = "setPollIntervalSeconds"
  /\ running
  /\ timer = PendingTimer
  /\ Len(timeouts) = 1
  /\ timeouts[1] \in {IntervalMs(seconds) : seconds \in PollSeconds} \ {pollIntervalMs}

TickBegins == call.op = "runTask"
RunSettled == call.op \in {"runTask settled", "triggerNow settled"}

----------------------------------------------------------------------------
(* Claims about withRetry *)

\* How many times fn has been invoked
FnInvocations == Len(fnCalls) + (IF retryAt = AwaitingFn THEN 1 ELSE 0)

\* C25: after a rejection of fn, withRetry invokes fn again only if
\* isRetriable(error) holds and fewer than maxAttempts invocations were made;
\* otherwise it rejects with that error at once; it resolves with the value
\* of the first invocation that resolved and does not invoke fn after it; fn
\* is invoked at least once and at most max(1, maxAttempts) times.
C25_RetryOnlyRetriable ==
  /\ [][ call'.op = "fn rejected" =>
           IF Retriable(isRetriable, call'.error) /\ Len(fnCalls') < maxAttempts
           THEN retryAt' = Sleeping /\ retryResult' = Pending
           ELSE retryAt' = RetrySettled /\ retryResult' = Rejected(call'.error) ]_vars
  /\ [][ FnInvocations' > FnInvocations =>
           /\ retryAt = Sleeping
           /\ fnCalls[Len(fnCalls)].state = "rejected"
           /\ Retriable(isRetriable, fnCalls[Len(fnCalls)].reason)
           /\ FnInvocations < maxAttempts ]_vars
  /\ [][ call'.op = "fn resolved" =>
           retryAt' = RetrySettled /\ retryResult' = Resolved(call'.value) ]_vars
  /\ [](\A i \in 1..Len(fnCalls) :
          fnCalls[i].state = "fulfilled" =>
            i = Len(fnCalls) /\ retryAt = RetrySettled /\ retryResult = fnCalls[i])
  /\ [](FnInvocations >= 1 /\ FnInvocations <= Max(1, maxAttempts))

\* The third invocation resolved after two retriable rejections
C25_Witness ==
  /\ retryAt = RetrySettled
  /\ maxAttempts = 3
  /\ Len(fnCalls) = 3
  /\ fnCalls[1] = Rejected(HttpError(429))
  /\ fnCalls[2] = Rejected(HttpError(500))
  /\ retryResult = Resolved("json")

\* C26: under the adapters' policy isRateLimitedOrServerError, a rejection of
\* fn that is no HTTP response is retried while fewer than maxAttempts
\* invocations were made, and withRetry rejects with it only then.
C26_TransportRetried ==
  [][ /\ call'.op = "fn rejected"
      /\ ~call'.error.isHttpError
      /\ isRetriable = "isRateLimitedOrServerError"
      /\ Len(fnCalls') < maxAttempts
      => retryAt' = Sleeping /\ retryResult' = Pending ]_vars

----------------------------------------------------------------------------
(* Further claims about the store and the refresh routine *)

\* the step applies a result of provider p that carries no error
AppliedSuccess(p) ==
  Applied /\ call'.result.provider = p /\ ~Truthy(call'.result.error)

\* C27: a staleSince that is set keeps its value through every store
\* operation but the application of a successful result of that provider.
C27_StaleSinceKept ==
  [][ \A p \in DOMAIN providerStatus :
        providerStatus[p].staleSince # undefinedAt /\ ~AppliedSuccess(p) =>
          providerStatus'[p].staleSince = providerStatus[p].staleSince ]_vars

\* the callback of provider p ends in this step
Completes(p) == ~Done(p) /\ task'[p].at = "done"

\* the fetch of some provider threw in the run that settles
SomeFetchThrew == \E p \in Providers : task[p].outcome = "threw"

\* C28: for a provider that is not authenticated the refresh routine calls
\* markProviderDisconnected and fetches nothing, and does not count an error;
\* a run in which no fetch threw resolves, so the scheduler's failureCount
\* becomes 0 and the next timeout has the plain poll interval.
C28_NotConnectedIsNoError ==
  /\ [][ \A p \in Providers :
           Completes(p) /\ task'[p].outcome = "not connected" =>
             /\ task[p] = AwaitingAuth
             /\ ~providerStatus'[p].connected
             /\ providerStatus'[p].error = "Not connected"
             /\ RowsOf(projects', p) = {}
             /\ RowsOf(deployments', p) = {}
             /\ hadError' = hadError ]_vars
  /\ [][ Settled /\ ~SomeFetchThrew =>
           /\ call'.ok
           /\ call'.promise = Fulfilled
           /\ failureCount' = 0
           /\ running => timeouts' = <<pollIntervalMs>> ]_vars

\* After a failed run, a run that found vercel not connected resolved and
\* reset the scheduler
C28_Witness ==
  /\ call.op \in {"runTask settled", "triggerNow settled"}
  /\ call.ok
  /\ call.failures = 1
  /\ ~providerStatus["vercel"].connected
  /\ providerStatus["vercel"].error = "Not connected"
  /\ running
  /\ failureCount = 0
  /\ timeouts = <<pollIntervalMs>>

\* C29: a refresh run rejects exactly if the fetch of some authenticated
\* provider threw, and settles only when every provider had one store
\* mutation of the run; a rejected run makes triggerNow() reject and counts
\* as one failure of the scheduler, however many fetches threw.
C29_RefreshFailsIffFetchThrew ==
  [][ Settled =>
        /\ call'.ok <=> ~SomeFetchThrew
        /\ \A p \in Providers : Done(p)
        /\ Len(completed) = Cardinality(Providers)
        /\ Range(completed) = Providers
        /\ ~call'.ok =>
             /\ failureCount' = failureCount + 1
             /\ call'.op = "triggerNow settled" => call'.promise = Rejected(RefreshError) ]_vars

\* A triggerNow() rejected after the fetches of both providers threw: one failure
C29_Witness ==
  /\ call.op = "triggerNow settled"
  /\ call.promise = Rejected(RefreshError)
  /\ \A p \in Providers : Truthy(providerStatus[p].error) /\ providerStatus[p].connected
  /\ Len(completed) = 2
  /\ failureCount = 1

\* C30: triggerNow() has no in-flight guard: called while a timer-driven run
\* awaits the task, it invokes the task at once, and two runs are in flight.
C30_NoInFlightGuard ==
  [][ call'.op = "triggerNow" /\ timerRuns > 0 =>
        /\ invocations' = invocations + 1
        /\ triggerRuns' = triggerRuns + 1
        /\ timerRuns' = timerRuns
        /\ timerRuns' + triggerRuns' >= 2 ]_vars

\* start(), the tick of delay 0, then triggerNow(): two runs in flight
C30_Witness ==
  /\ call.op = "triggerNow"
  /\ invocations = 2
  /\ timerRuns = 1
  /\ triggerRuns = 1
  /\ failureCount = 0
  /\ timeouts = <<>>

----------------------------------------------------------------------------
(* Claims about overlapping runs, disconnects and the store's frame *)

\* C31: of two successful results of one provider, applied in either order,
\* the store keeps the rows, lastAttemptAt, lastSuccessAt and fetchedAt of
\* the one with the later fetchedAt; a provider's lastAttemptAt and the
\* store's fetchedAt never decrease.
C31_LastWriteWinsByTimestamp ==
  [][ Applied =>
        LET result == call'.result
            p == result.provider
        IN /\ fetchedAt' >= fetchedAt
           /\ providerStatus'[p].lastAttemptAt >= providerStatus[p].lastAttemptAt
           /\ ( /\ ~Truthy(result.error)
                /\ result.fetchedAt < providerStatus[p].lastSuccessAt ) =>
                /\ RowsOf(projects', p) = RowsOf(projects, p)
                /\ RowsOf(deployments', p) = RowsOf(deployments, p)
                /\ providerStatus'[p].lastSuccessAt = providerStatus[p].lastSuccessAt ]_vars

\* C32: once a provider was disconnected by the command, and while it is not
\* authenticated again, the store holds none of its rows and its status has
\* connected = false, also when a fetch of it was in flight at the disconnect.
C32_DisconnectedStaysPurged ==
  \A p \in Providers :
    logout[p] = MarkedDisconnected =>
      /\ ~providerStatus[p].connected
      /\ RowsOf(projects, p) = {}
      /\ RowsOf(deployments, p) = {}

\* the entries of a listing that share the identity of entry i
SameIdentity(listed, i) ==
  {j \in 1..Len(listed) : deploymentKey(listed[j]) = deploymentKey(listed[i])}

\* the entries of that identity with the greatest updatedAt
Newest(listed, i) ==
  {j \in SameIdentity(listed, i) :
     \A k \in SameIdentity(listed, i) : listed[k].updatedAt <= listed[j].updatedAt}

ListedLast(indices) == CHOOSE j \in indices : \A k \in indices : j >= k

\* the one stored row of the identity of entry i is entry j
StoredAs(rows, listed, i, j) ==
  {rows[k] : k \in {n \in 1..Len(rows) : deploymentKey(rows[n]) = deploymentKey(listed[i])}}
    = {listed[j]}

\* C33: among the entries of one identity in a successful result the
\* stored row has the greatest updatedAt and, on equal updatedAt, is the one
\* listed last (an entry of equal updatedAt overwrites).
C33_TieOverwrites ==
  [][ (Applied /\ ~Truthy(call'.result.error)) =>
        LET listed == call'.result.deployments
        IN \A i \in 1..Len(listed) :
             StoredAs(deployments', listed, i, ListedLast(Newest(listed, i))) ]_vars

\* C34: with start(), timer firings and no triggerNow() and no start() after a
\* stop(), at most one run of the task is in flight, and a timeout is pending
\* only while no run is in flight.
C34_LoopNeverOverlaps ==
  /\ timerRuns + triggerRuns <= 1
  /\ timeouts # <<>> => timerRuns + triggerRuns = 0

\* the second run of the loop is in flight, begun by the retry timer of a
\* failed first run, and no timeout is pending
C34_Witness ==
  /\ running
  /\ timerRuns = 1
  /\ failureCount = 1
  /\ timeouts = <<>>

\* C35: while running is true, a timeout is pending or a run of the task is
\* in flight.
C35_RunningNeverStalls ==
  running => (timeouts # <<>> \/ timerRuns + triggerRuns > 0)

\* only runs in flight, one begun by the timer and one by triggerNow(), keep
\* the running scheduler going: no timeout is pending
C35_Witness ==
  /\ running
  /\ timeouts = <<>>
  /\ timerRuns = 1
  /\ triggerRuns = 1

\* C36: at most one timeout is pending at any time.
C36_AtMostOneTimer ==
  Len(timeouts) <= 1

\* a triggerNow() settled while the scheduler was running and no tick was in
\* flight, so that the timeout of the loop was pending: the one timeout pending
\* now is the one this triggerNow() armed in its place
C36_Witness ==
  /\ call.op = "triggerNow settled"
  /\ call.ok
  /\ running
  /\ timerRuns = 0
  /\ triggerRuns = 1
  /\ timeouts = <<pollIntervalMs>>

\* C37: failureCount is 0 before any operation and after every run that
\* resolves, grows by exactly one at every run that rejects, running or
\* stopped, is never negative, and is left alone by every other operation, so
\* that stop() followed by start() keeps the backoff level.
C37_FailureCount ==
  /\ [](call = NoCall => failureCount = 0)
  /\ [](failureCount >= 0)
  /\ [][ Settled /\ call'.ok => failureCount' = 0 ]_vars
  /\ [][ Settled /\ ~call'.ok => failureCount' = failureCount + 1 ]_vars
  /\ [][ ~Settled => failureCount' = failureCount ]_vars

\* a run rejected on a stopped scheduler as the second failure in a row
C37_Witness ==
  /\ RunSettled
  /\ ~call.ok
  /\ call.failures = 1
  /\ ~running
  /\ started
  /\ failureCount = 2

\* C38: a provider whose status has connected = false has no project row and
\* no deployment row in the snapshot.
C38_DisconnectedHasNoRows ==
  \A p \in DOMAIN providerStatus :
    ~providerStatus[p].connected =>
      /\ RowsOf(getSnapshot.projects, p) = {}
      /\ RowsOf(getSnapshot.deployments, p) = {}

\* vercel was fetched with success and then disconnected: its rows are gone
\* and those of netlify are still stored
C38_Witness ==
  /\ call.op = "markProviderDisconnected"
  /\ "vercel" \in DOMAIN providerStatus
  /\ ~providerStatus["vercel"].connected
  /\ providerStatus["vercel"].lastSuccessAt # undefinedAt
  /\ RowsOf(getSnapshot.deployments, "netlify") # {}

\* the provider an operation of the store is called for
CalledFor(c) == IF c.op = "applyProviderResult" THEN c.result.provider ELSE c.provider

\* C39: applyProviderResult for provider p and markProviderDisconnected(p)
\* leave the project rows, the deployment rows and the status record of every
\* other provider as they were; a result with an error and a disconnect also
\* leave the store-wide fetchedAt as it was.
C39_OtherProvidersUntouched ==
  [][ call'.op \in {"applyProviderResult", "markProviderDisconnected"} =>
        /\ \A q \in Providers \ {CalledFor(call')} :
             /\ RowsOf(projects', q) = RowsOf(projects, q)
             /\ RowsOf(deployments', q) = RowsOf(deployments, q)
             /\ q \in DOMAIN providerStatus =>
                  /\ q \in DOMAIN providerStatus'
                  /\ providerStatus'[q] = providerStatus[q]
        /\ ( \/ call'.op = "markProviderDisconnected"
             \/ Truthy(call'.result.error) ) => fetchedAt' = fetchedAt ]_vars

\* a result of vercel was applied with success while netlify, fetched before,
\* has rows in the store
C39_Witness ==
  /\ call.op = "applyProviderResult"
  /\ call.result.provider = "vercel"
  /\ ~Truthy(call.result.error)
  /\ call.result.deployments # <<>>
  /\ RowsOf(deployments, "netlify") # {}
  /\ RowsOf(projects, "netlify") # {}
  /\ providerStatus["netlify"].connected

\* C40: an update event handled while notifyOnFailure is off shows no alert
\* and leaves hasPrimed as it is; hasPrimed becomes true only at an event
\* handled while the setting is on, the first such event, which shows no alert
\* whatever it carries and however many events were handled before it.
C40_DisabledEventsDoNotPrime ==
  /\ [][ (fired' = 1 /\ ~notifyOnFailure) =>
           /\ alerts' = <<>>
           /\ hasPrimed' = hasPrimed ]_vars
  /\ [][ (fired' = 1 /\ notifyOnFailure /\ ~hasPrimed) =>
           /\ alerts' = <<>>
           /\ hasPrimed' ]_vars
  /\ [][ hasPrimed' # hasPrimed => (fired' = 1 /\ notifyOnFailure /\ hasPrimed') ]_vars

\* an event that carried a failed deployment was handled with the setting off:
\* no alert, and the gate is still to be primed
C40_Witness ==
  /\ fired = 1
  /\ anyEvent
  /\ ~notifyOnFailure
  /\ ~hasPrimed
  /\ alerts = <<>>
  /\ \E d \in Range(deployments) : d.state = "failed"

====
